---------------------------- MODULE Spec2Model ----------------------------
(***************************************************************************)
(* A model of the I3D exporter (addon/i3dio/i3d_exporter.py): the scene-   *)
(* graph builder, the node compiler, the resource tables (files,           *)
(* materials, shapes) and the per-mesh vertex cache.                       *)
(*                                                                         *)
(* Python strings are sequences of one-character strings, so that find,    *)
(* replace, repr and formatting are computed as the code computes them.    *)
(* An exception that the code does not catch is recorded in the machine    *)
(* state's "error" field and ends the run (pc = "aborted").                *)
(***************************************************************************)
EXTENDS Integers, Sequences, FiniteSets, TLC

VARIABLES pc, scene, graph, work, ex, fs, call

vars == <<pc, scene, graph, work, ex, fs, call>>

(***************************************************************************)
(* Python str operations                                                   *)
(***************************************************************************)
BS == "\\"

NoError == ""

\* s[i-1:i-1+len(sub)] == sub, with i counted from 1
IsAt(s, sub, i) ==
    /\ i + Len(sub) - 1 <= Len(s)
    /\ SubSeq(s, i, i + Len(sub) - 1) = sub

\* str.find(sub) + 1: the lowest position of sub, 0 when sub does not occur
Find(s, sub) ==
    IF \E i \in 1..(Len(s) + 1) : IsAt(s, sub, i)
    THEN CHOOSE i \in 1..(Len(s) + 1) :
            IsAt(s, sub, i) /\ \A j \in 1..(i - 1) : ~IsAt(s, sub, j)
    ELSE 0

\* str.rfind(c) + 1 for a single character c
RFind(s, c) ==
    IF \E i \in 1..Len(s) : s[i] = c
    THEN CHOOSE i \in 1..Len(s) : s[i] = c /\ \A j \in (i + 1)..Len(s) : s[j] # c
    ELSE 0

RECURSIVE ReplaceFrom(_, _, _, _)
ReplaceFrom(s, old, new, i) ==
    IF i > Len(s) THEN <<>>
    ELSE IF IsAt(s, old, i) THEN new \o ReplaceFrom(s, old, new, i + Len(old))
    ELSE <<s[i]>> \o ReplaceFrom(s, old, new, i + 1)

RECURSIVE Interleave(_, _, _)
Interleave(s, new, i) ==
    IF i > Len(s) THEN new ELSE new \o <<s[i]>> \o Interleave(s, new, i + 1)

\* str.replace(old, new): every non-overlapping occurrence, left to right; an
\* empty old matches before every character and at the end
Replace(s, old, new) ==
    IF old = <<>> THEN Interleave(s, new, 1) ELSE ReplaceFrom(s, old, new, 1)

RECURSIVE CountFrom(_, _, _)
CountFrom(s, sub, i) ==
    IF i > Len(s) THEN 0
    ELSE IF IsAt(s, sub, i) THEN 1 + CountFrom(s, sub, i + Len(sub))
    ELSE CountFrom(s, sub, i + 1)

\* str.count(sub) for a non-empty sub
Count(s, sub) == CountFrom(s, sub, 1)

StartsWith(s, p) == IsAt(s, p, 1)


(***************************************************************************)
(* The machine state the exporter's methods act on: the Exporter object    *)
(* (ex), the file system the copies go to (fs), the value the last call    *)
(* returned (ret) and the exception that escaped, if any (error).          *)
(***************************************************************************)
Raise(m, e) == [m EXCEPT !.error = e]

Failed(m) == m.error # NoError

\* Exporter.__init__, lines 41-50, and the tree before the skeleton is built
NewExporter ==
    [sections |-> <<>>,
     Asset |-> <<>>, Files |-> <<>>, Materials |-> <<>>, Shapes |-> <<>>,
     Dynamics |-> <<>>, Scene |-> <<>>, Animation |-> <<>>, UserAttributes |-> <<>>,
     file_indexes |-> <<>>,
     shape_material_indexes |-> <<>>,
     ids |-> [shape |-> 1, material |-> 1, file |-> 1],
     to_mesh |-> {}]   \* the shapes whose generated mesh Blender still holds

Machine(e, f) == [ex |-> e, fs |-> f, ret |-> 0, error |-> NoError]

(***************************************************************************)
(* Files: Exporter._xml_add_file                                           *)
(***************************************************************************)
\* relative_filter = 'data\shared' (the \s is no escape: a backslash and an s)
relative_filter == <<"d", "a", "t", "a", BS, "s", "h", "a", "r", "e", "d">>

\* the default of the file_folder parameter
file_folder_default == <<"t", "e", "x", "t", "u", "r", "e", "s">>

\* bpy.path.abspath: a path that starts with // is relative to the .blend file
abspath(cfg, filepath) ==
    IF StartsWith(filepath, <<"/", "/">>)
    THEN cfg.blend_dir \o SubSeq(filepath, 3, Len(filepath))
    ELSE filepath

\* filepath_resolved after the try block of lines 365-368
resolve_shared(filepath_absolute) ==
    LET idx == Find(filepath_absolute, relative_filter)
    IN  IF idx # 0
        THEN Replace(filepath_absolute, SubSeq(filepath_absolute, 1, idx - 1), <<"$">>)
        ELSE filepath_absolute

\* output_dir, lines 372-382
output_dir_of(cfg, filepath, filepath_absolute, file_folder) ==
    CASE cfg.file_structure = "MODHUB" -> file_folder \o <<BS>>
      [] cfg.file_structure = "BLENDER" ->
            IF Count(filepath, <<".", ".", BS>>) <= 3
            THEN SubSeq(filepath, 3, RFind(filepath, BS))
            ELSE SubSeq(filepath_absolute, 1, RFind(filepath_absolute, BS))
      [] OTHER -> <<>>

\* whether lines 371-384 run
copies_file(cfg, resolved0) == resolved0[1] # "$" /\ cfg.copy_files

\* the final filepath_resolved, the key of _file_indexes (lines 360-384);
\* defined for a non-empty first resolution
resolved_path(cfg, filepath) ==
    LET filepath_absolute == abspath(cfg, filepath)
        filename == SubSeq(filepath_absolute, RFind(filepath_absolute, BS) + 1,
                           Len(filepath_absolute))
        resolved0 == resolve_shared(filepath_absolute)
    IN  IF copies_file(cfg, resolved0)
        THEN output_dir_of(cfg, filepath, filepath_absolute, file_folder_default) \o filename
        ELSE resolved0

\* lines 390-397: the copy; shutil.copy raises when the source does not exist
copy_file(m, cfg, filepath) ==
    LET filepath_absolute == abspath(cfg, filepath)
        filename == SubSeq(filepath_absolute, RFind(filepath_absolute, BS) + 1,
                           Len(filepath_absolute))
        filepath_i3d == SubSeq(cfg.filepath, 1, RFind(cfg.filepath, BS))
        output_dir == output_dir_of(cfg, filepath, filepath_absolute, file_folder_default)
        filepath_resolved == output_dir \o filename
        dest == filepath_i3d \o output_dir \o filename
    IN  IF /\ filepath_resolved # filepath_absolute
           /\ filepath_resolved \notin DOMAIN m.ex.file_indexes
           /\ (cfg.overwrite_files \/ dest \notin m.fs)
        THEN IF filepath_absolute \notin m.fs THEN Raise(m, "FileNotFoundError")
             ELSE IF dest = filepath_absolute THEN m   \* SameFileError is ignored
             ELSE [m EXCEPT !.fs = @ \cup {dest}]
        ELSE m

\* a lookup that misses every time: a File element for every call
register_file_every_call(m, filepath_resolved) ==
    IF Failed(m) THEN m
    ELSE [m EXCEPT !.ex.Files = Append(@, [fileId |-> m.ex.ids.file,
                                           filename |-> filepath_resolved]),
                   !.ex.ids.file = @ + 1,
                   !.ex.file_indexes = (filepath_resolved :> m.ex.ids.file) @@ @,
                   !.ret = m.ex.ids.file]

\* lines 399-410: the lookup in _file_indexes and the new File element
register_file(m, filepath_resolved) ==
    IF Failed(m) THEN m
    ELSE IF filepath_resolved \in DOMAIN m.ex.file_indexes
    THEN [m EXCEPT !.ret = m.ex.file_indexes[filepath_resolved]]
    ELSE [m EXCEPT !.ex.Files = Append(@, [fileId |-> m.ex.ids.file,
                                           filename |-> filepath_resolved]),
                   !.ex.ids.file = @ + 1,
                   !.ex.file_indexes = (filepath_resolved :> m.ex.ids.file) @@ @,
                   !.ret = m.ex.ids.file]

\* lines 353-410; an exception of the copy leaves the method before the lookup
xml_add_file(m, cfg, filepath) ==
    IF Failed(m) THEN m
    ELSE IF resolve_shared(abspath(cfg, filepath)) = <<>>
    THEN Raise(m, "IndexError")   \* filepath_resolved[0], line 371
    ELSE register_file(IF copies_file(cfg, resolve_shared(abspath(cfg, filepath)))
                       THEN copy_file(m, cfg, filepath) ELSE m,
                       resolved_path(cfg, filepath))

(***************************************************************************)
(* Lookup of an element by its name attribute, as the exporter does it:    *)
(* root.find(f".Tag[@name={name!r}]").  The name goes through repr() into  *)
(* the path, and ElementPath reads a quoted literal back out of it.        *)
(***************************************************************************)
Chars(s) == {s[i] : i \in 1..Len(s)}

\* the quote repr() picks: " only when the string holds a ' and no "
repr_quote(s) == IF "'" \in Chars(s) /\ "\"" \notin Chars(s) THEN "\"" ELSE "'"

RECURSIVE repr_body(_, _, _)
repr_body(s, q, i) ==
    IF i > Len(s) THEN <<>>
    ELSE (IF s[i] = BS \/ s[i] = q THEN <<BS, s[i]>> ELSE <<s[i]>>)
         \o repr_body(s, q, i + 1)

\* repr(s) of a str of printable characters
repr(s) == LET q == repr_quote(s) IN <<q>> \o repr_body(s, q, 1) \o <<q>>

InvalidPredicate == <<"SyntaxError">>

\* ElementPath's tokenizer cuts the literal '[^']*' or "[^"]*" at the next
\* quote; [@name='value'] compares with the text between the quotes, and
\* anything left over before the ] is an invalid predicate
predicate_value(literal) ==
    LET q == literal[1]
        close == CHOOSE j \in 2..Len(literal) :
                    literal[j] = q /\ \A k \in 2..(j - 1) : literal[k] # q
    IN  IF close = Len(literal) THEN SubSeq(literal, 2, close - 1)
        ELSE InvalidPredicate

\* the position of the first element whose name attribute is value, 0 for None
first_named(elements, value) ==
    IF \E i \in 1..Len(elements) : elements[i].name = value
    THEN CHOOSE i \in 1..Len(elements) :
            /\ elements[i].name = value
            /\ \A j \in 1..(i - 1) : elements[j].name # value
    ELSE 0

\* root.find(f".Tag[@name={name!r}]"): -1 when the path does not parse
find_by_name(elements, name) ==
    IF predicate_value(repr(name)) = InvalidPredicate THEN -1
    ELSE first_named(elements, predicate_value(repr(name)))

(***************************************************************************)
(* Materials: Exporter._xml_add_material                                   *)
(*                                                                         *)
(* A source material is [name, use_nodes, bsdf, color, normal, gloss]:     *)
(* bsdf says whether the node tree holds 'Principled BSDF'; color, normal  *)
(* and gloss are what is linked to the Base Color socket, to the Normal    *)
(* socket through a normal map node, and to 'Separate RGB': kind "image"   *)
(* is an image texture node with an image at path, "none" is no link (or   *)
(* no such node), "other" any node or missing image the code skips.        *)
(***************************************************************************)
NoTexture == [kind |-> "none", path |-> <<>>]

Image(path) == [kind |-> "image", path |-> path]

\* lines 291, 321, 336: the element that refers to the file
set_texture(r, k, tag) ==
    IF Failed(r) THEN r
    ELSE [r EXCEPT !.ex.Materials[k][tag] = r.ret]

\* lines 289-291, 319-321, 334-336: the file and the element that refers to it
add_texture(m, cfg, k, tex, tag) ==
    IF Failed(m) \/ tex.kind # "image" THEN m
    ELSE set_texture(xml_add_file(m, cfg, tex.path), k, tag)

\* lines 297-307, 341-347
write_colors(m, k) ==
    IF Failed(m) THEN m
    ELSE [m EXCEPT !.ex.Materials[k].diffuseColor = TRUE,
                   !.ex.Materials[k].specularColor = TRUE]

\* lines 272-275: the new Material element with its name and materialId
material_element(m, material) ==
    [m EXCEPT !.ex.Materials =
        Append(@, [name |-> material.name,
                   materialId |-> m.ex.ids.material,
                   Texture |-> 0, Normalmap |-> 0, Glossmap |-> 0,
                   diffuseColor |-> FALSE, specularColor |-> FALSE])]

\* lines 277-347: the attributes and children of the k-th Material element
material_attributes(m, cfg, k, material) ==
    IF material.use_nodes
    THEN add_texture(IF material.bsdf
                     THEN add_texture(
                            write_colors(
                              add_texture(m, cfg, k, material.color, "Texture"), k),
                            cfg, k, material.normal, "Normalmap")
                     ELSE m,
                     cfg, k, material.gloss, "Glossmap")
    ELSE write_colors(m, k)

\* the material counter left where it was after a new entry
next_material_id_kept(m) == m

\* line 349
next_material_id(m) ==
    IF Failed(m) THEN m
    ELSE [m EXCEPT !.ex.ids.material = @ + 1]

\* lines 272-349: a material that has no Material element yet
new_material(m, cfg, material) ==
    next_material_id(
        material_attributes(material_element(m, material), cfg,
                            Len(m.ex.Materials) + 1, material))

\* line 351: the materialId of the k-th Material element
material_id_of(r, k) ==
    IF Failed(r) THEN r
    ELSE [r EXCEPT !.ret = r.ex.Materials[k].materialId]

\* lines 270-351 after the lookup returned found
material_found(m, cfg, material, found) ==
    IF found = -1 THEN Raise(m, "SyntaxError")
    ELSE IF found = 0
    THEN material_id_of(new_material(m, cfg, material), Len(m.ex.Materials) + 1)
    ELSE material_id_of(m, found)

xml_add_material(m, cfg, material) ==
    IF Failed(m) THEN m
    ELSE material_found(m, cfg, material, find_by_name(m.ex.Materials, material.name))

(***************************************************************************)
(* Number formatting.  A coordinate is an integer count of 10^-7 units, so *)
(* that values closer than the sixth decimal exist; f"{x:.6f}" rounds it   *)
(* to 10^-6 and keeps the sign of a negative value that rounds to zero.    *)
(***************************************************************************)
Digit(d) == <<"0", "1", "2", "3", "4", "5", "6", "7", "8", "9">>[d + 1]

RECURSIVE Decimal(_)
\* f"{n:d}" of n >= 0
Decimal(n) == IF n < 10 THEN <<Digit(n)>> ELSE Decimal(n \div 10) \o <<Digit(n % 10)>>

RECURSIVE ZeroPad(_, _)
ZeroPad(d, width) == IF Len(d) >= width THEN d ELSE ZeroPad(<<"0">> \o d, width)

Micro == 1000000

\* f"{x:.6f}" of x = raw * 10^-7 (no raw value lies on a rounding tie)
format_6f(raw) ==
    LET mag == IF raw < 0 THEN -raw ELSE raw
        micros == (mag + 5) \div 10
    IN  (IF raw < 0 THEN <<"-">> ELSE <<>>)
        \o Decimal(micros \div Micro) \o <<".">>
        \o ZeroPad(Decimal(micros % Micro), 6)

SP == " "

\* "{x:.6f} {y:.6f} {z:.6f}", lines 509-515
format_xyz(v) == format_6f(v[1]) \o <<SP>> \o format_6f(v[2]) \o <<SP>> \o format_6f(v[3])

\* "{u:.6f} {v:.6f}", lines 525-526
format_uv(uv) == format_6f(uv[1]) \o <<SP>> \o format_6f(uv[2])

\* the layers that lines 522-528 keep: count < 4
UvLimit == 4

\* vertex_data of one loop, lines 509-528; uvs[k] belongs to key t(k-1)
vertex_data_of(mesh, corner) ==
    [p |-> format_xyz(corner.co),
     n |-> format_xyz(corner.normal),
     uvs |-> [k \in 1..(IF mesh.uv_layers < UvLimit THEN mesh.uv_layers ELSE UvLimit)
                |-> format_uv(corner.uv[k])]]

RECURSIVE dict_items(_, _)
dict_items(uvs, k) ==
    IF k > Len(uvs) THEN <<>>
    ELSE (IF k > 1 THEN <<",", SP>> ELSE <<>>)
         \o <<"'", "t">> \o Decimal(k - 1) \o <<"'", ":", SP, "'">> \o uvs[k] \o <<"'">>
         \o dict_items(uvs, k + 1)

\* str() of the dict {'t0': '...', 't1': '...'}
dict_str(uvs) == <<"{">> \o dict_items(uvs, 1) \o <<"}">>

\* a vertex key that leaves the material name out
VertexItem_without_material(vertex_data, material_name) ==
    vertex_data.p \o <<SP>> \o vertex_data.n \o <<SP>> \o dict_str(vertex_data.uvs)

\* VertexItem.__init__, lines 757-760: the material name, then every value of
\* vertex_data ('p', 'n', 'uvs' in insertion order), each after a space.
\* __eq__ and __hash__ compare this string.
VertexItem(vertex_data, material_name) ==
    material_name \o <<SP>> \o vertex_data.p
                  \o <<SP>> \o vertex_data.n
                  \o <<SP>> \o dict_str(vertex_data.uvs)

(***************************************************************************)
(* Shapes: Exporter._xml_scene_object_shape                                *)
(*                                                                         *)
(* A source mesh is [name, materials, uv_layers, loop_triangles]: the      *)
(* material slots (a material, or NoMaterial for an empty slot), the       *)
(* number of UV layers, and the triangles in their original order, each    *)
(* [material_index, loops] with three corners [co, normal, uv].            *)
(***************************************************************************)
NoMaterial == [none |-> TRUE]

IsNone(material) == "none" \in DOMAIN material

default_material_name ==
    <<"i", "3", "d", "_", "d", "e", "f", "a", "u", "l", "t", "_",
      "m", "a", "t", "e", "r", "i", "a", "l">>

\* bpy.data.materials.new('i3d_default_material'), lines 462-466
DefaultMaterial ==
    [name |-> default_material_name, use_nodes |-> FALSE, bsdf |-> FALSE,
     color |-> NoTexture, normal |-> NoTexture, gloss |-> NoTexture]

mesh_materials(mesh) ==
    IF Len(mesh.materials) = 0 THEN <<DefaultMaterial>> ELSE mesh.materials

\* lines 477-480: the comma-joined materialIds of a shape, kept as the
\* sequence of the ids joined
append_material_id(indexes, shape_id, material_id) ==
    IF shape_id \in DOMAIN indexes
    THEN [indexes EXCEPT ![shape_id] = Append(@, material_id)]
    ELSE (shape_id :> <<material_id>>) @@ indexes

SubsetNames(subsets) == {subsets[k].mat : k \in 1..Len(subsets)}

SubsetOf(subsets, name) == CHOOSE k \in 1..Len(subsets) : subsets[k].mat = name

\* lines 477-480 on the machine that resolved the material
record_material_id(r, shape_id) ==
    IF Failed(r) THEN r
    ELSE [r EXCEPT !.ex.shape_material_indexes = append_material_id(@, shape_id, r.ret)]

\* a grouping that puts a newly met material in front of those met before
open_subset_in_front(g, cfg, material, shape_id) ==
    [m |-> record_material_id(xml_add_material(g.m, cfg, material), shape_id),
     subsets |-> <<[mat |-> material.name, triangles |-> <<>>]>> \o g.subsets]

\* lines 472-480: a material met for the first time opens a subset and is
\* resolved; g is [m, subsets], subsets the dict triangle_subsets in
\* insertion order
open_subset(g, cfg, material, shape_id) ==
    [m |-> record_material_id(xml_add_material(g.m, cfg, material), shape_id),
     subsets |-> Append(g.subsets, [mat |-> material.name, triangles |-> <<>>])]

\* line 483: the triangle joins the subset of its material
append_triangle(g, name, i) ==
    IF Failed(g.m) THEN g
    ELSE [g EXCEPT !.subsets[SubsetOf(g.subsets, name)].triangles = Append(@, i)]

RECURSIVE group_triangles(_, _, _, _, _)
\* lines 472-483 for the triangle at position i, then the triangles after it
group_triangle(g, cfg, mesh, shape_id, i, triangle_material) ==
    IF IsNone(triangle_material)
    THEN [g EXCEPT !.m = Raise(@, "AttributeError")]   \* triangle_material.name
    ELSE group_triangles(
           IF triangle_material.name \in SubsetNames(g.subsets)
           THEN append_triangle(g, triangle_material.name, i)
           ELSE append_triangle(open_subset(g, cfg, triangle_material, shape_id),
                                triangle_material.name, i),
           cfg, mesh, shape_id, i + 1)

\* lines 469-483: triangles grouped by material name, scanned in order; a
\* triangle is kept as its position in mesh.loop_triangles
group_triangles(g, cfg, mesh, shape_id, i) ==
    IF Failed(g.m) \/ i > Len(mesh.loop_triangles) THEN g
    ELSE group_triangle(g, cfg, mesh, shape_id, i,
                        mesh_materials(mesh)[mesh.loop_triangles[i].material_index + 1])

\* lines 506-545: one loop of a triangle against the vertex cache
add_loop(a, mesh, mat, corner) ==
    LET vertex_data == vertex_data_of(mesh, corner)
        vertex_item == VertexItem(vertex_data, mat)
    IN  IF vertex_item \in DOMAIN a.added_vertices
        THEN [a EXCEPT !.vi = Append(@, a.added_vertices[vertex_item])]
        ELSE [a EXCEPT !.added_vertices = (vertex_item :> a.vertex_counter) @@ @,
                       !.Vertices = Append(@, vertex_data),
                       !.vertex_counter = @ + 1,
                       !.number_of_vertices = @ + 1,
                       !.vi = Append(@, a.vertex_counter)]

\* lines 502-548: one triangle; src is the triangle's position in the source
\* mesh (kept for the properties, not written to the file)
add_triangle(a, mesh, mat, t) ==
    LET loops == mesh.loop_triangles[t].loops
        a3 == add_loop(add_loop(add_loop([a EXCEPT !.vi = <<>>],
                                         mesh, mat, loops[1]),
                                mesh, mat, loops[2]),
                       mesh, mat, loops[3])
    IN  [a3 EXCEPT !.Triangles = Append(@, [vi |-> a3.vi, src |-> t]),
                   !.number_of_indices = @ + 3]

RECURSIVE add_triangles(_, _, _, _, _)
add_triangles(a, mesh, mat, triangles, j) ==
    IF j > Len(triangles) THEN a
    ELSE add_triangles(add_triangle(a, mesh, mat, triangles[j]), mesh, mat, triangles, j + 1)

\* a subset whose firstIndex does not start from the running total
add_subset_without_total(a, mesh, subset) ==
    LET a0 == [a EXCEPT !.number_of_indices = 0, !.number_of_vertices = 0]
        a1 == add_triangles(a0, mesh, subset.mat, subset.triangles, 1)
    IN  [a1 EXCEPT !.Subsets = Append(@, [firstIndex |-> 0,
                                          firstVertex |-> a.vertex_counter,
                                          numIndices |-> a1.number_of_indices,
                                          numVertices |-> a1.number_of_vertices]),
                   !.indices_total = @ + a1.number_of_indices]

\* lines 493-552: one subset
add_subset(a, mesh, subset) ==
    LET a0 == [a EXCEPT !.number_of_indices = 0, !.number_of_vertices = 0]
        a1 == add_triangles(a0, mesh, subset.mat, subset.triangles, 1)
    IN  [a1 EXCEPT !.Subsets = Append(@, [firstIndex |-> a.indices_total,
                                          firstVertex |-> a.vertex_counter,
                                          numIndices |-> a1.number_of_indices,
                                          numVertices |-> a1.number_of_vertices]),
                   !.indices_total = @ + a1.number_of_indices]

RECURSIVE add_subsets(_, _, _, _)
add_subsets(a, mesh, subsets, k) ==
    IF k > Len(subsets) THEN a
    ELSE add_subsets(add_subset(a, mesh, subsets[k]), mesh, subsets, k + 1)

\* lines 487-552: the vertex cache and the counters before the first subset
extract_vertices(mesh, subsets) ==
    add_subsets([added_vertices |-> <<>>, vertex_counter |-> 0, indices_total |-> 0,
                 number_of_indices |-> 0, number_of_vertices |-> 0, vi |-> <<>>,
                 Vertices |-> <<>>, Triangles |-> <<>>, Subsets |-> <<>>],
                mesh, subsets, 1)

\* lines 422-428: the new IndexedTriangleSet element and the next shape id
shape_element(m, mesh) ==
    [m EXCEPT !.ex.ids.shape = @ + 1,
              !.ex.Shapes = Append(@, [name |-> mesh.name,
                                       shapeId |-> m.ex.ids.shape,
                                       triangles_count |-> Len(mesh.loop_triangles),
                                       subsets_count |-> 0,
                                       vertices_count |-> 0,
                                       Vertices |-> <<>>,
                                       Triangles |-> <<>>,
                                       Subsets |-> <<>>])]

\* lines 485-558: the parts of the k-th IndexedTriangleSet element
shape_parts(m, k, subsets_count, a) ==
    IF Failed(m) THEN m
    ELSE [m EXCEPT !.ex.Shapes[k].subsets_count = subsets_count,
                   !.ex.Shapes[k].vertices_count = a.vertex_counter,
                   !.ex.Shapes[k].Vertices = a.Vertices,
                   !.ex.Shapes[k].Triangles = a.Triangles,
                   !.ex.Shapes[k].Subsets = a.Subsets]

\* lines 485-558 on the grouped triangles
shape_of_groups(g, k, mesh) ==
    shape_parts(g.m, k, Len(g.subsets), extract_vertices(mesh, g.subsets))

\* lines 430-438: obj.to_mesh generates a mesh for the shape being compiled,
\* which Blender holds until it is cleared
to_mesh(m, shape_id) ==
    [m EXCEPT !.ex.to_mesh = @ \cup {shape_id}]

\* line 556: obj.to_mesh_clear(), a statement of the straight-line path only
to_mesh_clear(m, shape_id) ==
    IF Failed(m) THEN m
    ELSE [m EXCEPT !.ex.to_mesh = @ \ {shape_id}]

\* lines 422-558: a mesh that has no IndexedTriangleSet yet
new_shape(m, cfg, mesh) ==
    to_mesh_clear(
        shape_of_groups(
            group_triangles([m |-> to_mesh(shape_element(m, mesh), m.ex.ids.shape),
                             subsets |-> <<>>],
                            cfg, mesh, m.ex.ids.shape, 1),
            Len(m.ex.Shapes) + 1, mesh),
        m.ex.ids.shape)

\* lines 560-566: the pair of attributes written to the node's element, read
\* off the k-th IndexedTriangleSet element
shape_attributes(r, k) ==
    IF Failed(r) THEN r
    ELSE IF r.ex.Shapes[k].shapeId \notin DOMAIN r.ex.shape_material_indexes
    THEN [Raise(r, "KeyError") EXCEPT   \* line 566, after line 565 wrote shapeId
            !.ret = [shapeId |-> r.ex.Shapes[k].shapeId]]
    ELSE [r EXCEPT !.ret =
            [shapeId |-> r.ex.Shapes[k].shapeId,
             materialIds |-> r.ex.shape_material_indexes[r.ex.Shapes[k].shapeId]]]

\* lines 418-566 after the lookup returned found
shape_found(m, cfg, mesh, found) ==
    IF found = -1 THEN Raise(m, "SyntaxError")
    ELSE IF found = 0
    THEN shape_attributes(new_shape(m, cfg, mesh), Len(m.ex.Shapes) + 1)
    ELSE shape_attributes(m, found)

\* the whole method
xml_scene_object_shape(m, cfg, mesh) ==
    IF Failed(m) THEN m
    ELSE shape_found(m, cfg, mesh, find_by_name(m.ex.Shapes, mesh.name))

(***************************************************************************)
(* The scene graph: class SceneGraph and Exporter._xml_build_scene_graph   *)
(*                                                                         *)
(* The host scene (world) gives, for every entity, its kind ("Collection", *)
(* or the type of an object), its children (child objects of an object,    *)
(* child collections of a collection), the member objects of a collection, *)
(* the parent and the instanced collection of an object ("None" when it    *)
(* has none) and its data.                                                 *)
(***************************************************************************)
None == "None"

NoParent == -1

IsCollection(world, e) == world.kind[e] = "Collection"

\* a children dict that is keyed by the parent's own id: every child
\* overwrites the one before it
add_child_overwriting(children, node_id) == <<node_id>>

\* Node.add_child, lines 708-709: children[node.id] = node, a dict in insertion
\* order, kept as the sequence of its keys
add_child(children, node_id) ==
    IF node_id \in {children[i] : i \in 1..Len(children)} THEN children
    ELSE Append(children, node_id)

\* SceneGraph.add_node with Node.__init__, lines 693-703 and 745-751
add_node(g, blender_object, parent) ==
    LET node_id == g.ids.node
        new_node == [id |-> node_id, blender_object |-> blender_object,
                     parent |-> parent, children |-> <<>>]
        linked == IF parent # NoParent
                  THEN [g.nodes EXCEPT ![parent].children = add_child(@, node_id)]
                  ELSE g.nodes
    IN  [ids |-> [node |-> g.ids.node + 1],
         nodes |-> (node_id :> new_node) @@ linked]

\* SceneGraph.__init__, lines 714-723: the counter at 0, then the root node
NewSceneGraph == add_node([ids |-> [node |-> 0], nodes |-> <<>>], None, NoParent)

\* the calls new_graph_node(entity, parent) for the entities in order, each
\* depth frames deep on the interpreter's stack
Frames(entities, parent, depth) ==
    [i \in 1..Len(entities) |->
        [obj |-> entities[i], parent |-> parent, unpack |-> FALSE, depth |-> depth]]

\* the member objects a collection hands on: those without a parent, line 108
RECURSIVE Parentless(_, _, _)
Parentless(world, objects, i) ==
    IF i > Len(objects) THEN <<>>
    ELSE (IF world.parent[objects[i]] = None THEN <<objects[i]>> ELSE <<>>)
         \o Parentless(world, objects, i + 1)

\* whether new_graph_node returns at line 78
skipped(world, objects_to_export, blender_object) ==
    /\ ~IsCollection(world, blender_object)
    /\ world.kind[blender_object] \notin objects_to_export

\* nested_calls with a visited-set guard in its crudest form: a placeholder's
\* group is never entered
nested_calls_without_instancing(world, blender_object, node, depth) ==
    IF ~IsCollection(world, blender_object)
    THEN Frames(world.children[blender_object], node, depth + 1)
    ELSE Frames(world.children[blender_object], node, depth + 1)
         \o Frames(Parentless(world, world.objects[blender_object], 1), node,
                   depth + 1)

\* nested_calls with the placeholder's own children ahead of the members of
\* the group it instances
nested_calls_children_first(world, blender_object, node, depth) ==
    (IF ~IsCollection(world, blender_object)
     THEN Frames(world.children[blender_object], node, depth + 1)
     ELSE Frames(world.children[blender_object], node, depth + 1)
          \o Frames(Parentless(world, world.objects[blender_object], 1), node,
                    depth + 1))
    \o (IF /\ ~IsCollection(world, blender_object)
           /\ world.kind[blender_object] = "EMPTY"
           /\ world.instance_collection[blender_object] # None
        THEN <<[obj |-> world.instance_collection[blender_object], parent |-> node,
                unpack |-> TRUE, depth |-> depth + 1]>>
        ELSE <<>>)

\* lines 87-109: the calls new_graph_node makes, in order, for the node it
\* works on
nested_calls(world, blender_object, node, depth) ==
    (IF /\ ~IsCollection(world, blender_object)
        /\ world.kind[blender_object] = "EMPTY"
        /\ world.instance_collection[blender_object] # None
     THEN <<[obj |-> world.instance_collection[blender_object], parent |-> node,
             unpack |-> TRUE, depth |-> depth + 1]>>
     ELSE <<>>)
    \o (IF ~IsCollection(world, blender_object)
        THEN Frames(world.children[blender_object], node, depth + 1)
        ELSE Frames(world.children[blender_object], node, depth + 1)
             \o Frames(Parentless(world, world.objects[blender_object], 1), node,
                       depth + 1))

\* lines 111-120: the entity the traversal starts from
selected_root(world, selection) ==
    CASE selection = "ALL" -> <<world.scene_collection>>
      [] selection = "ACTIVE_COLLECTION" -> <<world.active_collection>>
      [] OTHER -> <<>>

(***************************************************************************)
(* The node compiler: Exporter._xml_parse_scene_graph                      *)
(***************************************************************************)
\* a switcher without the EMPTY entry
switcher_without_empty ==
    [MESH |-> "Shape", CURVE |-> "Shape", CAMERA |-> "Camera", LIGHT |-> "Light",
     COLLECTION |-> "TransformGroup"]

switcher ==
    [MESH |-> "Shape", CURVE |-> "Shape", EMPTY |-> "TransformGroup",
     CAMERA |-> "Camera", LIGHT |-> "Light", COLLECTION |-> "TransformGroup"]

NoElementName == "KeyError"

\* Exporter.blender_to_i3d, lines 674-688; NoElementName when switcher has no
\* entry for the type
blender_to_i3d(world, blender_object) ==
    IF IsCollection(world, blender_object) THEN "TransformGroup"
    ELSE IF world.kind[blender_object] \in DOMAIN switcher
    THEN switcher[world.kind[blender_object]]
    ELSE NoElementName

\* lines 216-223: the matrix the transform is read from, as the product of
\* its factors (G the conversion matrix, L matrix_local, Ginv the inverse).
\* node.blender_object == 'LIGHT' compares an object with a str and is false.
transform_of(world, blender_object) ==
    LET matrix == IF world.kind[blender_object] = "CAMERA"
                  THEN <<"G", "L">> ELSE <<"G", "L", "Ginv">>
        parent == world.parent[blender_object]
    IN  IF parent # None /\ world.kind[parent] \in {"CAMERA", "LIGHT"}
        THEN <<"Ginv">> \o matrix
        ELSE matrix

\* Exporter._xml_scene_object_general_data, lines 201-238
xml_scene_object_general_data(world, node) ==
    [name |-> node.blender_object, nodeId |-> node.id,
     transform |-> IF IsCollection(world, node.blender_object) THEN <<"identity">>
                   ELSE transform_of(world, node.blender_object)]

\* f"{value:.7f}" of value = raw * 10^-8 >= 0 (no raw value lies on a rounding
\* tie), _xml_write_float, lines 628-631
format_7f(raw) ==
    Decimal(((raw + 5) \div 10) \div (10 * Micro)) \o <<".">>
    \o ZeroPad(Decimal(((raw + 5) \div 10) % (10 * Micro)), 7)

\* math.degrees of an angle in milliradians, in millidegrees, with 355/113
\* for pi
degrees(angle) == (angle * 180 * 113) \div 355

\* a dropOff that is the blend itself
drop_off_unscaled(spot_blend) == spot_blend

\* line 596: Blender spot 0.0 -> 1.0, GE spot 0.0 -> 5.0; spot_blend and the
\* result are counts of 10^-8
drop_off(spot_blend) == 5 * spot_blend

\* lines 594-596: what a SPOT light writes before the common attributes
spot_attributes(light) ==
    IF light.type = "SPOT"
    THEN [coneAngle |-> degrees(light.spot_size),
          dropOff |-> format_7f(drop_off(light.spot_blend))]
    ELSE <<>>

\* Exporter._xml_scene_object_light, lines 582-613: ret is the attributes
\* written; a falloff type that is none of the three stays a str, and
\* f"{value:d}" of a str raises
xml_scene_object_light(m, light) ==
    LET light_type == CASE light.type = "POINT" -> "point"
                        [] light.type = "SUN" -> "directional"
                        [] light.type = "SPOT" -> "spot"
                        [] light.type = "AREA" -> "point"
                        [] OTHER -> light.type
        falloff_type == IF light.type \in {"POINT", "SPOT"} THEN light.falloff_type ELSE None
        spot == spot_attributes(light)
        common == [type |-> light_type, range |-> light.distance,
                   castShadowMap |-> light.use_shadow]
    IN  IF Failed(m) THEN m
        ELSE IF falloff_type = None THEN [m EXCEPT !.ret = spot @@ common]
        ELSE IF falloff_type \notin {"CONSTANT", "INVERSE_LINEAR", "INVERSE_SQUARE"}
        THEN [Raise(m, "ValueError") EXCEPT !.ret = spot @@ common]
        ELSE [m EXCEPT !.ret = spot @@ common @@
                  [decayRate |-> CASE falloff_type = "CONSTANT" -> 0
                                   [] falloff_type = "INVERSE_LINEAR" -> 1
                                   [] falloff_type = "INVERSE_SQUARE" -> 2]]

\* Exporter._xml_scene_object_camera, lines 572-580
xml_scene_object_camera(m, camera) ==
    IF Failed(m) THEN m
    ELSE [m EXCEPT !.ret =
            [fov |-> camera.lens, nearClip |-> camera.clip_start,
             farClip |-> camera.clip_end]
            @@ (IF camera.type = "ORTHO"
                THEN [orthographic |-> TRUE, orthographicHeight |-> camera.ortho_scale]
                ELSE <<>>)]

\* what line 177 leaves on the node's element: nothing when the method was
\* left before line 565
shape_written(r) ==
    IF Failed(r) /\ r.error # "KeyError" THEN [r EXCEPT !.ret = <<>>] ELSE r

\* lines 175-186: the dispatch on the node's kind; ret is the attributes the
\* branch writes to the node's element
dispatch(m, cfg, world, blender_object) ==
    CASE world.kind[blender_object] = "MESH" ->
            shape_written(xml_scene_object_shape(m, cfg, world.data[blender_object]))
      [] world.kind[blender_object] = "LIGHT" ->
            xml_scene_object_light(m, world.data[blender_object])
      [] world.kind[blender_object] = "CAMERA" ->
            xml_scene_object_camera(m, world.data[blender_object])
      [] OTHER -> [m EXCEPT !.ret = <<>>]

\* the element of line 192 or 197 with what parse_node wrote to it
node_element(r, tag, parent_element, general) ==
    [r EXCEPT !.ret = [tag |-> tag, parent |-> parent_element] @@ general @@ r.ret]

\* parse_node up to its loop over the children, lines 173-188, for the element
\* that line 192 or 197 created: ret is the finished element
parse_node(m, cfg, world, node, parent_element) ==
    node_element(dispatch(m, cfg, world, node.blender_object),
                 blender_to_i3d(world, node.blender_object), parent_element,
                 xml_scene_object_general_data(world, node))

(***************************************************************************)
(* File resolution on its own: any sequence of _xml_add_file calls of one  *)
(* run, under every combination of the copy options.                       *)
(***************************************************************************)
MaxResolves == 3

PathSharedA == <<"C", ":", BS, "g", BS>> \o relative_filter \o <<BS, "t">>
PathSharedB == <<"D", ":", BS>> \o relative_filter \o <<BS, "t">>
PathMarker0 == relative_filter \o <<BS, "t">>
PathAbsA == <<"C", ":", BS, "a", BS, "t">>
PathAbsB == <<"C", ":", BS, "b", BS, "t">>
PathRel == <<"/", "/", "x", BS, "t">>
PathEmpty == <<>>

Paths == {PathSharedA, PathSharedB, PathMarker0, PathAbsA, PathAbsB, PathRel, PathEmpty}

BlendDir == <<"C", ":", BS, "p", BS>>
OutFile == <<"C", ":", BS, "o", BS, "m">>

\* the files on disk before the export: every image, or every image but one
Disks ==
    LET all == {abspath([blend_dir |-> BlendDir], p) : p \in Paths \ {PathEmpty}}
    IN  {all, all \ {PathAbsB}}

Options ==
    [copy_files : BOOLEAN, overwrite_files : BOOLEAN,
     file_structure : {"FLAT", "MODHUB", "BLENDER"},
     filepath : {OutFile}, blend_dir : {BlendDir}]

InitFile ==
    /\ pc = "files"
    /\ \E o \in Options : scene = [cfg |-> o]
    /\ graph = <<>>
    /\ work = <<>>
    /\ ex = NewExporter
    /\ fs \in Disks
    /\ call = <<>>

\* one call of _xml_add_file
ResolveFile ==
    /\ pc = "files"
    /\ Len(call) < MaxResolves
    /\ \E filepath \in Paths :
          \E m \in {xml_add_file(Machine(ex, fs), scene.cfg, filepath)} :
              /\ ex' = m.ex
              /\ fs' = m.fs
              /\ call' = Append(call, [arg |-> filepath, ret |-> m.ret, error |-> m.error,
                                       copied |-> m.fs # fs])
              /\ pc' = IF Failed(m) THEN "aborted" ELSE "files"
    /\ UNCHANGED <<scene, graph, work>>

NextFile == ResolveFile

SpecFile == InitFile /\ [][NextFile]_vars

(***************************************************************************)
(* The skeleton: Exporter._xml_build_skeleton_structure                    *)
(***************************************************************************)
SectionNames ==
    <<"Asset", "Files", "Materials", "Shapes", "Dynamics", "Scene", "Animation",
      "UserAttributes">>

\* a skeleton that creates Scene before Shapes
xml_build_skeleton_scene_first(e) ==
    [e EXCEPT !.sections = <<"Asset", "Files", "Materials", "Scene", "Shapes", "Dynamics",
                             "Animation", "UserAttributes">>,
              !.Asset = <<[tag |-> "Export"]>>]

\* lines 133-167: the eight sub-elements of i3D, Asset with its Export child
xml_build_skeleton_structure(e) ==
    [e EXCEPT !.sections = SectionNames,
              !.Asset = <<[tag |-> "Export"]>>]

(***************************************************************************)
(* Shape compilation on its own: one mesh, drawn from every combination of *)
(* material slots, UV layer count and up to MaxTris triangles, compiled    *)
(* for up to MaxShapeNodes nodes that share it.                            *)
(***************************************************************************)
MaxTris == 4

MaxShapeNodes == 2

\* the coordinate 1.0 in units of 10^-7
One == 10 * Micro

UvZero == <<<<0, 0>>, <<0, 0>>, <<0, 0>>, <<0, 0>>, <<0, 0>>>>

CornerBase == [co |-> <<0, 0, 0>>, normal |-> <<0, 0, One>>, uv |-> UvZero]

\* the same position after rounding to six decimals
CornerNear == [CornerBase EXCEPT !.co = <<4, 0, 0>>]

\* a negative value that rounds to zero prints as -0.000000
CornerNeg == [CornerBase EXCEPT !.co = <<-4, 0, 0>>]

CornerNormal == [CornerBase EXCEPT !.normal = <<0, One, 0>>]

CornerUv1 == [CornerBase EXCEPT !.uv[1] = <<One, 0>>]

\* differs in the fifth UV layer only
CornerUv5 == [CornerBase EXCEPT !.uv[5] = <<One, 0>>]

Loops ==
    {<<CornerBase, CornerNear, CornerNormal>>,
     <<CornerUv1, CornerUv5, CornerNeg>>}

Plain(name) ==
    [name |-> name, use_nodes |-> FALSE, bsdf |-> FALSE,
     color |-> NoTexture, normal |-> NoTexture, gloss |-> NoTexture]

MatM == Plain(<<"m">>)

\* a name that ends like the start of a formatted position
MatM0 == Plain(<<"m", SP, "0", ".", "0", "0", "0", "0", "0", "0">>)

\* a node material whose node tree holds no 'Principled BSDF' node
MatN ==
    [name |-> <<"n">>, use_nodes |-> TRUE, bsdf |-> FALSE,
     color |-> NoTexture, normal |-> NoTexture, gloss |-> NoTexture]

SlotSets == {<<>>, <<MatM>>, <<MatM, MatM0>>, <<MatM0, MatM>>, <<MatM, MatM>>,
             <<MatM, NoMaterial>>, <<MatN, MatM>>}

MeshName == <<"c">>

\* the material slots a triangle may index: a mesh without slots has its
\* triangles at index 0
SlotCount(materials) == IF Len(materials) = 0 THEN 1 ELSE Len(materials)

MeshInputs ==
    {[name |-> MeshName, materials |-> slots, uv_layers |-> layers, loop_triangles |-> tris] :
        slots \in SlotSets, layers \in {1, 5},
        tris \in UNION {[1..n -> [material_index : {0, 1}, loops : Loops]] : n \in 0..MaxTris}}

NoCopy ==
    [copy_files |-> FALSE, overwrite_files |-> FALSE, file_structure |-> "FLAT",
     filepath |-> OutFile, blend_dir |-> BlendDir]

InitMesh ==
    /\ pc = "mesh"
    /\ \E mesh \in MeshInputs :
          /\ \A i \in 1..Len(mesh.loop_triangles) :
                mesh.loop_triangles[i].material_index < SlotCount(mesh.materials)
          /\ scene = [cfg |-> NoCopy, mesh |-> mesh]
    /\ graph = <<>>
    /\ work = <<>>
    /\ ex = xml_build_skeleton_structure(NewExporter)
    /\ fs = {}
    /\ call = <<>>

\* _xml_scene_object_shape for one more node whose data is the mesh
CompileShape ==
    /\ pc = "mesh"
    /\ Len(call) < MaxShapeNodes
    /\ \E m \in {xml_scene_object_shape(Machine(ex, fs), scene.cfg, scene.mesh)} :
           /\ ex' = m.ex
           /\ fs' = m.fs
           /\ call' = Append(call, [ret |-> m.ret, error |-> m.error])
           /\ pc' = IF Failed(m) THEN "aborted" ELSE "mesh"
    /\ UNCHANGED <<scene, graph, work>>

NextMesh == CompileShape

SpecMesh == InitMesh /\ [][NextMesh]_vars

(***************************************************************************)
(* Properties of one compiled mesh (SpecMesh)                              *)
(***************************************************************************)
\* the first compilation ran to the end of the vertex extraction: it raised
\* nothing, or only the KeyError of line 566 that follows it
MeshCompiled ==
    /\ pc \in {"mesh", "aborted"}
    /\ Len(call) >= 1
    /\ call[1].error \in {NoError, "KeyError"}
    /\ Len(ex.Shapes) >= 1

TriMaterial(mesh, t) ==
    mesh_materials(mesh)[mesh.loop_triangles[t].material_index + 1].name

Range(f) == {f[i] : i \in DOMAIN f}

RECURSIVE FirstSeen(_, _, _)
\* the distinct material names in the order the scan of the triangles meets them
FirstSeen(mesh, t, acc) ==
    IF t > Len(mesh.loop_triangles) THEN acc
    ELSE FirstSeen(mesh, t + 1,
                   IF TriMaterial(mesh, t) \in Range(acc) THEN acc
                   ELSE Append(acc, TriMaterial(mesh, t)))

RECURSIVE ScanOf(_, _, _)
\* the triangles of one material, in scan order
ScanOf(mesh, name, t) ==
    IF t > Len(mesh.loop_triangles) THEN <<>>
    ELSE (IF TriMaterial(mesh, t) = name THEN <<t>> ELSE <<>>) \o ScanOf(mesh, name, t + 1)

RECURSIVE Concat(_, _, _)
Concat(mesh, order, k) ==
    IF k > Len(order) THEN <<>>
    ELSE ScanOf(mesh, order[k], 1) \o Concat(mesh, order, k + 1)

\* the fields of a corner that the claim compares: rounded position, normal,
\* the UV pairs that are carried, and the material of its triangle
KeyFields(mesh, t, i) ==
    LET corner == mesh.loop_triangles[t].loops[i]
    IN  <<format_xyz(corner.co), format_xyz(corner.normal),
          [k \in 1..(IF mesh.uv_layers < UvLimit THEN mesh.uv_layers ELSE UvLimit)
              |-> format_uv(corner.uv[k])],
          TriMaterial(mesh, t)>>

\* the vertex indices of the emitted triangles, in emission order
RECURSIVE FlatIndices(_, _)
FlatIndices(triangles, t) ==
    IF t > Len(triangles) THEN <<>> ELSE triangles[t].vi \o FlatIndices(triangles, t + 1)

\* the compared fields of every emitted corner, by emitted triangle and loop
EmittedKeys(mesh, tris) ==
    [a \in 1..Len(tris) |-> [i \in 1..3 |-> KeyFields(mesh, tris[a].src, i)]]

\* the vertex data of every emitted corner, as the source mesh gives it
EmittedData(mesh, tris) ==
    [a \in 1..Len(tris) |->
        [i \in 1..3 |-> vertex_data_of(mesh, mesh.loop_triangles[tris[a].src].loops[i])]]

\* C2: within one compiled mesh, two triangle corners share one entry of the
\* vertex list exactly when their rounded position, normal, UV set and
\* material are all the same, and the vertex entries are in first-seen order:
\* every index is one seen before or the next unused one, and entry vi holds
\* the data of the corners that refer to it.
C2_VertexDedup ==
    MeshCompiled =>
        \A shape \in {ex.Shapes[1]} :
        \A keys \in {EmittedKeys(scene.mesh, shape.Triangles)} :
        \A data \in {EmittedData(scene.mesh, shape.Triangles)} :
        \A flat \in {FlatIndices(shape.Triangles, 1)} :
            /\ \A a, b \in 1..Len(shape.Triangles) : \A i, j \in 1..3 :
                  (keys[a][i] = keys[b][j])
                      <=> (shape.Triangles[a].vi[i] = shape.Triangles[b].vi[j])
            /\ \A q \in 1..Len(flat) :
                  LET before == {flat[r] : r \in 1..(q - 1)}
                  IN  flat[q] \in before \/ flat[q] = Cardinality(before)
            /\ Len(shape.Vertices) = Cardinality(Range(flat))
            /\ shape.vertices_count = Len(shape.Vertices)
            /\ \A a \in 1..Len(shape.Triangles) : \A i \in 1..3 :
                  shape.Vertices[shape.Triangles[a].vi[i] + 1] = data[a][i]

\* two corners that differ only below the sixth decimal share an entry, and two
\* that differ only in their material do not
C2_Witness ==
    /\ MeshCompiled
    /\ call[1].error = NoError
    /\ LET mesh == scene.mesh
           tris == ex.Shapes[1].Triangles
       IN  /\ \E a \in 1..Len(tris) : \E i, j \in 1..3 :
                 /\ mesh.loop_triangles[tris[a].src].loops[i].co
                       # mesh.loop_triangles[tris[a].src].loops[j].co
                 /\ tris[a].vi[i] = tris[a].vi[j]
           /\ \E a, b \in 1..Len(tris) :
                 /\ mesh.loop_triangles[tris[a].src].loops = mesh.loop_triangles[tris[b].src].loops
                 /\ TriMaterial(mesh, tris[a].src) # TriMaterial(mesh, tris[b].src)
                 /\ tris[a].vi[1] # tris[b].vi[1]

\* C3: in every compiled mesh the first subset starts at firstIndex 0 and
\* firstVertex 0, and each next subset starts where the one before it ends:
\* firstIndex(k+1) = firstIndex(k) + numIndices(k) and firstVertex(k+1) =
\* firstVertex(k) + numVertices(k).
C3_ContiguousPacking ==
    \A s \in 1..Len(ex.Shapes) :
        LET subsets == ex.Shapes[s].Subsets
        IN  /\ Len(subsets) >= 1 =>
                  subsets[1].firstIndex = 0 /\ subsets[1].firstVertex = 0
            /\ \A k \in 1..(Len(subsets) - 1) :
                  /\ subsets[k + 1].firstIndex = subsets[k].firstIndex + subsets[k].numIndices
                  /\ subsets[k + 1].firstVertex = subsets[k].firstVertex + subsets[k].numVertices

\* a mesh with two subsets that both add vertices
C3_Witness ==
    /\ pc = "mesh"
    /\ Len(ex.Shapes) = 1
    /\ Len(ex.Shapes[1].Subsets) = 2
    /\ ex.Shapes[1].Subsets[1].numVertices > 0
    /\ ex.Shapes[1].Subsets[2].numVertices > 0
    /\ ex.Shapes[1].Subsets[2].firstIndex > 3

\* C6: in every compiled mesh the subsets are in the order in which the scan
\* of the triangles first meets each distinct material, the triangles are
\* emitted subset by subset and in scan order within a subset, each subset
\* spans exactly its material's triangles, and the node's materialIds name
\* the materials in that same order.
C6_SubsetOrder ==
    MeshCompiled =>
        \A mesh \in {scene.mesh} :
        \A shape \in {ex.Shapes[1]} :
        \A order \in {FirstSeen(scene.mesh, 1, <<>>)} :
            /\ Len(shape.Subsets) = Len(order)
            /\ shape.subsets_count = Len(order)
            /\ [t \in 1..Len(shape.Triangles) |-> shape.Triangles[t].src]
                  = Concat(mesh, order, 1)
            /\ \A k \in 1..Len(shape.Subsets) :
                  shape.Subsets[k].numIndices = 3 * Len(ScanOf(mesh, order[k], 1))
            /\ \A c \in 1..Len(call) :
                  call[c].error = NoError =>
                      /\ Len(call[c].ret.materialIds) = Len(order)
                      /\ \A k \in 1..Len(order) :
                            \E j \in 1..Len(ex.Materials) :
                                /\ ex.Materials[j].name = order[k]
                                /\ ex.Materials[j].materialId = call[c].ret.materialIds[k]

\* four triangles that alternate between two materials give two subsets
C6_Witness ==
    /\ MeshCompiled
    /\ call[1].error = NoError
    /\ Len(scene.mesh.loop_triangles) = 4
    /\ [t \in 1..4 |-> TriMaterial(scene.mesh, t)] = <<MatM0.name, MatM.name, MatM0.name, MatM.name>>
    /\ Len(ex.Shapes[1].Subsets) = 2
    /\ [t \in 1..4 |-> ex.Shapes[1].Triangles[t].src] = <<1, 3, 2, 4>>
    /\ call[1].ret.materialIds = <<1, 2>>

(***************************************************************************)
(* The whole export: Exporter.__init__, lines 62-66, over a host scene.    *)
(***************************************************************************)
\* the kinds object_types_to_export can hold
ExportableKinds == {"EMPTY", "CAMERA", "LIGHT", "MESH"}

MatBS == Plain(<<"m", BS>>)

\* a node material whose color and normal textures are two absolute paths
\* below the shared data folder, and whose gloss texture lies elsewhere
MatT ==
    [name |-> <<"t">>, use_nodes |-> TRUE, bsdf |-> TRUE,
     color |-> Image(PathSharedA), normal |-> Image(PathSharedB),
     gloss |-> Image(PathAbsA)]

Tri(material_index) ==
    [material_index |-> material_index, loops |-> <<CornerBase, CornerNear, CornerNormal>>]

MeshP ==
    [name |-> <<"p">>, materials |-> <<MatT, MatBS>>, uv_layers |-> 1,
     loop_triangles |-> <<Tri(0), Tri(1)>>]

\* a mesh whose name holds a backslash
MeshQ ==
    [name |-> <<"q", BS>>, materials |-> <<MatM>>, uv_layers |-> 1,
     loop_triangles |-> <<Tri(0)>>]

MeshR ==
    [name |-> <<"r">>, materials |-> <<MatM, MatBS>>, uv_layers |-> 0,
     loop_triangles |-> <<Tri(1), Tri(0)>>]

\* a mesh without faces
MeshZ ==
    [name |-> <<"z">>, materials |-> <<MatM>>, uv_layers |-> 0, loop_triangles |-> <<>>]

MeshPool == {MeshP, MeshQ, MeshR, MeshZ}

\* spot_size is in milliradians, spot_blend a count of 10^-8
Light(type, falloff_type, spot_blend) ==
    [type |-> type, falloff_type |-> falloff_type, spot_size |-> 785,
     spot_blend |-> spot_blend, distance |-> 40, use_shadow |-> type # "SPOT"]

\* the blend 0.5
HalfBlend == 50 * Micro

\* a blend whose product with 5 has an eighth decimal
OddBlend == 70 * Micro - 2

LightPool ==
    {Light("POINT", "INVERSE_SQUARE", 15 * Micro),
     Light("SUN", "CONSTANT", 15 * Micro),
     Light("AREA", "INVERSE_LINEAR", 15 * Micro),
     Light("SPOT", "CUSTOM_CURVE", 2 * HalfBlend),
     Light("SPOT", "INVERSE_LINEAR", HalfBlend),
     Light("SPOT", "CONSTANT", 0),
     Light("SPOT", "INVERSE_SQUARE", OddBlend)}

Camera == [type |-> "PERSP", lens |-> 50, clip_start |-> 1, clip_end |-> 100, ortho_scale |-> 6]

\* Scene Collection holds ColA and the objects Empty1, Mesh1, Mesh3, Light1 and
\* Arm1; Empty1 instances ColB (with ColC and Mesh2) and is the parent of
\* Light1; Mesh1 is the parent of Mesh3; ColA holds Cam1 and its child Empty2.
World(meshes, light) ==
    [scene_collection |-> "Scene",
     active_collection |-> "ColA",
     kind |-> [Scene |-> "Collection", ColA |-> "Collection", ColB |-> "Collection",
               ColC |-> "Collection", Empty1 |-> "EMPTY", Empty2 |-> "EMPTY",
               Mesh1 |-> "MESH", Mesh2 |-> "MESH", Mesh3 |-> "MESH",
               Light1 |-> "LIGHT", Cam1 |-> "CAMERA", Arm1 |-> "ARMATURE"],
     children |-> [Scene |-> <<"ColA">>, ColA |-> <<>>, ColB |-> <<"ColC">>,
                   ColC |-> <<>>, Empty1 |-> <<"Light1">>, Empty2 |-> <<>>,
                   Mesh1 |-> <<"Mesh3">>, Mesh2 |-> <<>>, Mesh3 |-> <<>>,
                   Light1 |-> <<>>, Cam1 |-> <<"Empty2">>, Arm1 |-> <<>>],
     objects |-> [Scene |-> <<"Arm1", "Empty1", "Mesh1", "Mesh3", "Light1">>,
                  ColA |-> <<"Cam1", "Empty2">>,
                  ColB |-> <<"Mesh2">>, ColC |-> <<>>],
     parent |-> [Empty1 |-> None, Empty2 |-> "Cam1", Mesh1 |-> None, Mesh2 |-> None,
                 Mesh3 |-> "Mesh1", Light1 |-> "Empty1", Cam1 |-> None, Arm1 |-> None],
     instance_collection |-> [Empty1 |-> "ColB", Empty2 |-> None],
     data |-> [Mesh1 |-> meshes[1], Mesh2 |-> meshes[2], Mesh3 |-> meshes[3],
               Light1 |-> light, Cam1 |-> Camera]]

Worlds == {World(meshes, light) : meshes \in [1..3 -> MeshPool], light \in LightPool}

Selections == {"ALL", "ACTIVE_COLLECTION", "SELECTED_OBJECTS"}

ExportKindSets == SUBSET ExportableKinds

\* the state after lines 41-60 of Exporter.__init__
Init ==
    /\ pc = "skeleton"
    /\ \E world \in Worlds, selection \in Selections, kinds \in ExportKindSets :
          scene = [cfg |-> NoCopy, world |-> world, selection |-> selection,
                   objects_to_export |-> kinds]
    /\ graph = NewSceneGraph
    /\ work = <<>>
    /\ ex = NewExporter
    /\ fs = {}
    /\ call = <<>>

\* line 62
BuildSkeleton ==
    /\ pc = "skeleton"
    /\ ex' = xml_build_skeleton_structure(ex)
    /\ pc' = "graph"
    /\ UNCHANGED <<scene, graph, work, fs, call>>

\* line 63 up to the first call of new_graph_node, lines 111-120
BuildSceneGraph ==
    /\ pc = "graph"
    /\ work' = Frames(selected_root(scene.world, scene.selection), 0, 1)
    /\ pc' = "nodes"
    /\ UNCHANGED <<scene, graph, ex, fs, call>>

\* the nesting of new_graph_node calls the interpreter allows before it
\* raises RecursionError (sys.getrecursionlimit(), less the frames below)
RecursionLimit == 8

\* one call of new_graph_node, lines 72-109; the calls it makes are the next
\* steps, in the order the recursion runs them.  A call nested deeper than
\* the interpreter allows raises RecursionError, which nothing catches.
NewGraphNode ==
    /\ pc = "nodes"
    /\ work # <<>>
    /\ \E frame \in {Head(work)} :
          IF frame.depth > RecursionLimit
          THEN /\ pc' = "aborted"
               /\ call' = Append(call, [node |-> frame.parent, element |-> TRUE,
                                        error |-> "RecursionError"])
               /\ UNCHANGED <<graph, work>>
          ELSE IF skipped(scene.world, scene.objects_to_export, frame.obj)
          THEN /\ work' = Tail(work)
               /\ UNCHANGED <<pc, graph, call>>
          ELSE /\ graph' = IF frame.unpack THEN graph
                           ELSE add_node(graph, frame.obj, frame.parent)
               /\ work' = nested_calls(scene.world, frame.obj,
                                       IF frame.unpack THEN frame.parent
                                       ELSE graph.ids.node,
                                       frame.depth)
                          \o Tail(work)
               /\ UNCHANGED <<pc, call>>
    /\ UNCHANGED <<scene, ex, fs>>

ChildFrames(children, parent_element) ==
    [i \in 1..Len(children) |-> [node |-> children[i], parent_element |-> parent_element]]

\* line 64 up to the first call of parse_node, lines 196-199
ParseSceneGraph ==
    /\ pc = "nodes"
    /\ work = <<>>
    /\ work' = ChildFrames(graph.nodes[0].children, 0)
    /\ pc' = IF graph.nodes[0].children = <<>> THEN "write" ELSE "parse"
    /\ UNCHANGED <<scene, graph, ex, fs, call>>

\* the element of one node, lines 192-193 or 197-198, and parse_node on it;
\* its children are the next steps
ParseNode ==
    /\ pc = "parse"
    /\ work # <<>>
    /\ LET frame == Head(work)
           node == graph.nodes[frame.node]
       IN  IF blender_to_i3d(scene.world, node.blender_object) = NoElementName
           THEN /\ call' = Append(call, [node |-> node.id, element |-> FALSE,
                                         error |-> "KeyError"])
                /\ pc' = "aborted"
                /\ UNCHANGED <<ex, fs, work>>
           ELSE \E m \in {parse_node(Machine(ex, fs), scene.cfg, scene.world, node,
                                      frame.parent_element)} :
                    /\ ex' = [m.ex EXCEPT !.Scene = Append(@, m.ret)]
                    /\ fs' = m.fs
                    /\ call' = Append(call, [node |-> node.id, element |-> TRUE,
                                             error |-> m.error])
                    /\ work' = IF Failed(m) THEN work
                               ELSE ChildFrames(node.children, Len(ex.Scene) + 1)
                                    \o Tail(work)
                    /\ pc' = IF Failed(m) THEN "aborted"
                             ELSE IF work' = <<>> THEN "write" ELSE "parse"
    /\ UNCHANGED <<scene, graph>>

\* Exporter._xml_export_to_file, lines 615-621: ElementTree.write either
\* writes the file or raises; the except clause prints the exception and the
\* method returns as after a write.  ret is what was printed.
xml_export_to_file(m, cfg, written) ==
    IF Failed(m) THEN m
    ELSE IF written
    THEN [m EXCEPT !.fs = @ \cup {cfg.filepath}, !.ret = "Exported"]
    ELSE [m EXCEPT !.ret = "exception"]

\* line 66: _xml_export_to_file, after which Exporter.__init__ returns
ExportToFile ==
    /\ pc = "write"
    /\ \E written \in BOOLEAN :
          \E m \in {xml_export_to_file(Machine(ex, fs), scene.cfg, written)} :
              /\ ex' = m.ex
              /\ fs' = m.fs
              /\ call' = Append(call, [node |-> 0, element |-> TRUE, error |-> m.error,
                                       printed |-> m.ret])
              /\ pc' = IF Failed(m) THEN "aborted" ELSE "done"
    /\ UNCHANGED <<scene, graph, work>>

Next ==
    \/ BuildSkeleton
    \/ BuildSceneGraph
    \/ NewGraphNode
    \/ ParseSceneGraph
    \/ ParseNode
    \/ ExportToFile

Spec == Init /\ [][Next]_vars

(***************************************************************************)
(* Properties of the file table (SpecFile)                                 *)
(***************************************************************************)
\* C4: after any sequence of file resolutions the Files section holds one
\* File entry per distinct final resolved path; the entries are numbered by
\* the file counter in the order they were made, so a resolution that makes
\* no entry does not advance it; and every call that returned gave the fileId
\* of the one entry whose filename is the final resolved path of its input,
\* whichever input path led to it.
C4_FileDedup ==
    /\ \A i, j \in 1..Len(ex.Files) :
          ex.Files[i].filename = ex.Files[j].filename => i = j
    /\ ex.ids.file = Len(ex.Files) + 1
    /\ \A i \in 1..Len(ex.Files) : ex.Files[i].fileId = i
    /\ DOMAIN ex.file_indexes = {ex.Files[i].filename : i \in 1..Len(ex.Files)}
    /\ \A c \in 1..Len(call) :
          call[c].error = NoError =>
              /\ call[c].ret \in 1..Len(ex.Files)
              /\ ex.Files[call[c].ret].filename = resolved_path(scene.cfg, call[c].arg)

\* two different absolute paths below the shared data folder got the same
\* fileId, and Files holds the one $ entry
C4_Witness ==
    /\ pc = "files"
    /\ Len(call) = 2
    /\ call[1].arg = PathSharedA
    /\ call[2].arg = PathSharedB
    /\ call[1].ret = call[2].ret
    /\ Len(ex.Files) = 1
    /\ ex.Files[1].filename[1] = "$"

(***************************************************************************)
(* Properties of the whole export (Spec)                                   *)
(***************************************************************************)
NodeIds == DOMAIN graph.nodes

\* the positions in Scene of the elements made for a node
ElementsOf(node_id) == {e \in 1..Len(ex.Scene) : ex.Scene[e].nodeId = node_id}

\* the mesh of the node a Shape element was made for
MeshOf(element) == scene.world.data[element.name]

ShapeElements == {e \in 1..Len(ex.Scene) : ex.Scene[e].tag = "Shape"}

\* C1: within one run a mesh has at most one Shapes entry, made by the first
\* node that refers to it with the next shape id (the ids start at 1 and the
\* shape counter advances only with a new entry), and every node that refers
\* to the same mesh carries that same shapeId.
C1_ShapeCache ==
    /\ \A i, j \in 1..Len(ex.Shapes) : ex.Shapes[i].name = ex.Shapes[j].name => i = j
    /\ \A i \in 1..Len(ex.Shapes) : ex.Shapes[i].shapeId = i
    /\ ex.ids.shape = Len(ex.Shapes) + 1
    /\ \A a, b \in ShapeElements :
          MeshOf(ex.Scene[a]) = MeshOf(ex.Scene[b])
              => ex.Scene[a].shapeId = ex.Scene[b].shapeId

\* C5: within one run a material name has at most one Material entry, made at
\* its first resolution with the next material id (the ids start at 1 in
\* first-use order and the material counter advances only with a new entry),
\* and every Shape node names a material by the id of that one entry.
C5_MaterialCache ==
    /\ \A i, j \in 1..Len(ex.Materials) :
          ex.Materials[i].name = ex.Materials[j].name => i = j
    /\ \A i \in 1..Len(ex.Materials) : ex.Materials[i].materialId = i
    /\ pc # "aborted" => ex.ids.material = Len(ex.Materials) + 1

\* how often a node id occurs in a children dict
Occurrences(children, node_id) ==
    Cardinality({k \in 1..Len(children) : children[k] = node_id})

C7_Graph ==
    /\ NodeIds = 0..(graph.ids.node - 1)
    /\ \A i \in NodeIds : graph.nodes[i].id = i
    /\ graph.nodes[0].parent = NoParent
    /\ graph.nodes[0].blender_object = None
    /\ \A i \in NodeIds \ {0} :
          /\ graph.nodes[i].parent \in 0..(i - 1)
          /\ \A p \in NodeIds :
                Occurrences(graph.nodes[p].children, i)
                    = IF p = graph.nodes[i].parent THEN 1 ELSE 0

C7_Allocation ==
    /\ \A i \in NodeIds :
          /\ i \in DOMAIN graph'.nodes
          /\ graph'.nodes[i].id = graph.nodes[i].id
          /\ graph'.nodes[i].blender_object = graph.nodes[i].blender_object
          /\ graph'.nodes[i].parent = graph.nodes[i].parent
    /\ (DOMAIN graph'.nodes) \ NodeIds \subseteq {graph.ids.node}

\* C7: in every state of scene-graph building the node ids are the dense
\* range 0..n-1 with each node stored under its own id, 0 is the synthetic
\* root, every non-root node names one earlier node as its parent and occurs
\* exactly once in that node's children and in no other node's; and no step
\* changes the id, object or parent of an existing node, a new node taking
\* the next unused id.
C7_NodeIds == []C7_Graph /\ [][C7_Allocation]_vars

\* the graph of the whole scene: ten nodes below the root, some of them
\* siblings, some nested
C7_Witness ==
    /\ pc = "nodes"
    /\ work = <<>>
    /\ graph.ids.node = 11
    /\ Len(graph.nodes[1].children) >= 3
    /\ \E i \in NodeIds : graph.nodes[i].parent > 1

\* C8: when node compilation has ended, Scene holds exactly one element for
\* every non-root node of the scene graph; the element of a node is a child
\* of the element of the node's parent (of Scene itself for the children of
\* the root); and the elements of siblings are in the order of the parent's
\* children.
C8_TreeMirror ==
    pc \in {"write", "done", "aborted"} =>
        /\ \A i \in NodeIds \ {0} : Cardinality(ElementsOf(i)) = 1
        /\ Len(ex.Scene) = Cardinality(NodeIds) - 1
        /\ \A e \in 1..Len(ex.Scene) :
              \A parent \in {graph.nodes[ex.Scene[e].nodeId].parent} :
                  IF parent = 0 THEN ex.Scene[e].parent = 0
                  ELSE ex.Scene[e].parent \in ElementsOf(parent)
        /\ \A p \in NodeIds :
              \A a, b \in 1..Len(graph.nodes[p].children) :
                  a < b => \A ea \in ElementsOf(graph.nodes[p].children[a]) :
                           \A eb \in ElementsOf(graph.nodes[p].children[b]) : ea < eb

ElementNames == {"TransformGroup", "Shape", "Camera", "Light"}

\* whether new_graph_node goes past line 78 for the entity
Admitted(entity) == ~skipped(scene.world, scene.objects_to_export, entity)

\* C9: every entity the scene-graph builder can admit as a node (a
\* collection, or an object whose type is in object_types_to_export) maps to
\* one of TransformGroup, Shape, Camera, Light; so does every node of the
\* graph, no lookup of an element name fails, and every element under Scene
\* carries one of the four names.
C9_MappingTotal ==
    /\ \A entity \in DOMAIN scene.world.kind :
          Admitted(entity) => blender_to_i3d(scene.world, entity) \in ElementNames
    /\ \A i \in NodeIds \ {0} :
          blender_to_i3d(scene.world, graph.nodes[i].blender_object) \in ElementNames
    /\ \A c \in 1..Len(call) : call[c].element
    /\ \A e \in 1..Len(ex.Scene) : ex.Scene[e].tag \in ElementNames

\* a finished export with elements of all four names, one of them for an
\* EMPTY object
C9_Witness ==
    /\ pc = "done"
    /\ {ex.Scene[e].tag : e \in 1..Len(ex.Scene)} = ElementNames
    /\ \E e \in 1..Len(ex.Scene) : scene.world.kind[ex.Scene[e].name] = "EMPTY"

C10_Sections ==
    /\ pc # "skeleton" => ex.sections = SectionNames
    /\ (pc = "done" /\ NodeIds = {0}) =>
          /\ ex.Asset # <<>>
          /\ \A k \in 2..Len(SectionNames) : ex[SectionNames[k]] = <<>>

IsPrefix(s, t) == Len(s) <= Len(t) /\ SubSeq(t, 1, Len(s)) = s

C10_AppendOnly ==
    /\ ex.sections # <<>> => ex'.sections = ex.sections
    /\ \A k \in 1..Len(SectionNames) : IsPrefix(ex[SectionNames[k]], ex'[SectionNames[k]])

C11_NoAbort ==
    /\ pc # "aborted"
    /\ \A c \in 1..Len(call) : call[c].error = NoError

\* the call of _xml_export_to_file, once it was made
WriteCalls == {c \in 1..Len(call) : call[c].node = 0}

\* the write of the document failed with an I/O error
WriteFailed == \E c \in WriteCalls : scene.cfg.filepath \notin fs

\* what the caller of Exporter(...) can tell a failed export by: __init__
\* returns no value and the Exporter keeps no result field, so only an
\* exception that leaves the constructor reports anything
ReportsFailure == pc = "aborted"

\* C12: when writing the document fails, the failure is caught and a
\* diagnostic is printed, and the export reports the failure to its caller:
\* a run whose write failed ends in a way the caller can tell from a run
\* whose write succeeded.
C12_WriteFailureReported ==
    WriteFailed =>
        /\ \A c \in WriteCalls : call[c].printed = "exception"
        /\ ReportsFailure

\* the elements under Scene that were made for objects, not for collections
ObjectElements ==
    {e \in 1..Len(ex.Scene) : ~IsCollection(scene.world, ex.Scene[e].name)}

\* the product an element's transform was read from, without the leading
\* inverse that a node below a camera or light gets
Composition(element) ==
    IF /\ scene.world.parent[element.name] # None
       /\ scene.world.kind[scene.world.parent[element.name]] \in {"CAMERA", "LIGHT"}
    THEN Tail(element.transform)
    ELSE element.transform

\* C13: the local transform of every non-group node is the change of basis
\* times the node's local matrix, followed by the inverse change of basis
\* exactly when the node is neither a camera nor a light.
C13_TransformComposition ==
    \A e \in ObjectElements :
        Composition(ex.Scene[e]) =
            IF scene.world.kind[ex.Scene[e].name] \in {"CAMERA", "LIGHT"}
            THEN <<"G", "L">>
            ELSE <<"G", "L", "Ginv">>

LightElements == {e \in 1..Len(ex.Scene) : ex.Scene[e].tag = "Light"}

\* the light a Light element was made for
LightOf(element) == scene.world.data[element.name]

\* C14: every light node carries the type point for POINT, directional for
\* SUN, spot for SPOT and point for AREA; it carries a decayRate exactly when
\* that type is point or spot, and the decayRate is 0 for a constant, 1 for an
\* inverse-linear and 2 for an inverse-square falloff.
C14_LightMapping ==
    \A e \in LightElements :
        /\ ex.Scene[e].type =
              CASE LightOf(ex.Scene[e]).type = "POINT" -> "point"
                [] LightOf(ex.Scene[e]).type = "SUN" -> "directional"
                [] LightOf(ex.Scene[e]).type = "SPOT" -> "spot"
                [] LightOf(ex.Scene[e]).type = "AREA" -> "point"
        /\ ("decayRate" \in DOMAIN ex.Scene[e]) <=> (ex.Scene[e].type \in {"point", "spot"})
        /\ "decayRate" \in DOMAIN ex.Scene[e] =>
              ex.Scene[e].decayRate =
                  CASE LightOf(ex.Scene[e]).falloff_type = "CONSTANT" -> 0
                    [] LightOf(ex.Scene[e]).falloff_type = "INVERSE_LINEAR" -> 1
                    [] LightOf(ex.Scene[e]).falloff_type = "INVERSE_SQUARE" -> 2

SharedCalls ==
    {c \in 1..Len(call) :
        Find(abspath(scene.cfg, call[c].arg), relative_filter) # 0}

\* what follows the marker in the absolute path of a call
AfterMarker(c) ==
    SubSeq(abspath(scene.cfg, call[c].arg),
           Find(abspath(scene.cfg, call[c].arg), relative_filter) + Len(relative_filter),
           Len(abspath(scene.cfg, call[c].arg)))

\* C16: a file whose absolute path holds the shared-data marker, at whatever
\* position (index 0 included), resolves to $ followed by the unchanged rest
\* of the path after the marker, and no file is copied for it under any
\* setting of the copy options.
C16_SharedRewrite ==
    \A c \in SharedCalls :
        /\ call[c].error = NoError
        /\ ex.Files[call[c].ret].filename = <<"$">> \o AfterMarker(c)
        /\ ~call[c].copied

\* ---------------------------------------------------------------------------
\* Scene-graph building on its own, lines 64-109, over scenes with and
\* without a group that instances itself.

\* a scene in which ColB holds the placeholder that instances ColB
CyclicDirect ==
    [World([i \in 1..3 |-> MeshP], Light("POINT", "INVERSE_SQUARE", 0))
        EXCEPT !.objects.ColB = <<"Mesh2", "Empty1">>]

\* a scene in which ColB's child group ColC holds the placeholder that
\* instances ColB
CyclicTransitive ==
    [World([i \in 1..3 |-> MeshP], Light("POINT", "INVERSE_SQUARE", 0))
        EXCEPT !.objects.ColC = <<"Empty1">>]

GraphWorlds ==
    {World([i \in 1..3 |-> MeshP], Light("POINT", "INVERSE_SQUARE", 0)),
     CyclicDirect, CyclicTransitive}

InitGraph ==
    /\ pc = "graph"
    /\ \E world \in GraphWorlds, selection \in Selections, kinds \in ExportKindSets :
          scene = [cfg |-> NoCopy, world |-> world, selection |-> selection,
                   objects_to_export |-> kinds]
    /\ graph = NewSceneGraph
    /\ work = <<>>
    /\ ex = NewExporter
    /\ fs = {}
    /\ call = <<>>

NextGraph ==
    \/ BuildSceneGraph
    \/ NewGraphNode
    \/ ParseSceneGraph

\* the interpreter runs the one thread of the export without pause: a step
\* that can be taken is taken
SpecGraph == InitGraph /\ [][NextGraph]_vars /\ WF_vars(NextGraph)

Entities(world) == DOMAIN world.kind

\* the scene's relation between an admitted entity and the entities below
\* it: child groups and child objects, a group's parentless members, and the
\* group a placeholder instances
CalledFrom(sc, entity) ==
    IF skipped(sc.world, sc.objects_to_export, entity) THEN {}
    ELSE Range(sc.world.children[entity])
         \cup (IF IsCollection(sc.world, entity)
               THEN {o \in Range(sc.world.objects[entity]) : sc.world.parent[o] = None}
               ELSE IF sc.world.kind[entity] = "EMPTY"
                       /\ sc.world.instance_collection[entity] # None
               THEN {sc.world.instance_collection[entity]}
               ELSE {})

RECURSIVE CalledWithin(_, _, _)
CalledWithin(sc, from, steps) ==
    IF steps = 0 THEN from
    ELSE CalledWithin(sc, from \cup UNION {CalledFrom(sc, e) : e \in from}, steps - 1)

Traversed(sc) ==
    CalledWithin(sc, Range(selected_root(sc.world, sc.selection)),
                 Cardinality(Entities(sc.world)))

\* the traversal comes to a group that instances itself, directly or through
\* other groups
CycleTraversed ==
    \E e \in Traversed(scene) :
        e \in CalledWithin(scene, CalledFrom(scene, e), Cardinality(Entities(scene.world)))

\* the nodes allocated for one object
NodesFor(blender_object) ==
    {i \in NodeIds : graph.nodes[i].blender_object = blender_object}

BuildReturned == pc \in {"parse", "write"}

RecursionFailed ==
    /\ pc = "aborted"
    /\ call # <<>>
    /\ call[Len(call)].error = "RecursionError"

\* C17 as stated: building terminates for every scene without a traversed
\* instancing cycle, and for a scene with one it never terminates.
C17_NeverEnds ==
    /\ (~CycleTraversed) => <>BuildReturned
    /\ [](CycleTraversed => pc \in {"graph", "nodes"})

\* C17: building terminates for every scene whose traversed instancing
\* relation is acyclic; when a traversed group instances itself, directly or
\* through a child group, nothing guards the recursion: it allocates a
\* further node for the placeholder in every round, never returns a finished
\* graph, and ends when the interpreter raises RecursionError.
C17_Termination ==
    /\ (~CycleTraversed) => <>BuildReturned
    /\ CycleTraversed => <>RecursionFailed
    /\ [](CycleTraversed => ~BuildReturned)
    /\ [][CycleTraversed /\ pc' = "aborted" =>
             Cardinality(NodesFor("Empty1")) >= RecursionLimit \div 3]_vars

C17_Witness ==
    /\ CycleTraversed
    /\ RecursionFailed
    /\ scene.world = CyclicTransitive
    /\ Cardinality(NodesFor("Empty1")) > 1

\* the compilations of SpecMesh that have ended, normally or by an error
CompilationEnded == call # <<>>

\* C18: after the shape compilation of a node has ended in any way, by its
\* return or by an error raised inside it, no mesh generated for it is still
\* held.
C18_CopyReleased == CompilationEnded => ex.to_mesh = {}

\* the objects of a node's children, in the order of the children
ChildObjects(node_id) ==
    [k \in 1..Len(graph.nodes[node_id].children) |->
        graph.nodes[graph.nodes[node_id].children[k]].blender_object]

AdmittedObject(o) == ~skipped(scene.world, scene.objects_to_export, o)

\* the nodes of admitted placeholders that instance a group
Placeholders ==
    {i \in NodeIds \ {0} :
        /\ ~IsCollection(scene.world, graph.nodes[i].blender_object)
        /\ scene.world.kind[graph.nodes[i].blender_object] = "EMPTY"
        /\ scene.world.instance_collection[graph.nodes[i].blender_object] # None}

InstancedBy(node_id) ==
    scene.world.instance_collection[graph.nodes[node_id].blender_object]

GraphBuilt == pc \in {"parse", "write", "done", "aborted"}

\* C19: the step that unpacks an instanced group allocates no node and leaves
\* the node-id counter alone; in the finished graph the children of a
\* placeholder's node are the group's child groups, then the group's admitted
\* parentless members, then the placeholder's own admitted children, and no
\* child of it is the group.
C19_TransparentInstancing ==
    /\ [](GraphBuilt =>
            \A i \in Placeholders :
               /\ ChildObjects(i) =
                     scene.world.children[InstancedBy(i)]
                     \o SelectSeq(scene.world.objects[InstancedBy(i)],
                                  LAMBDA o : scene.world.parent[o] = None
                                             /\ AdmittedObject(o))
                     \o SelectSeq(scene.world.children[graph.nodes[i].blender_object],
                                  AdmittedObject)
               /\ InstancedBy(i) \notin Range(ChildObjects(i)))
    /\ [][(pc = "nodes" /\ work # <<>> /\ Head(work).unpack) => graph' = graph]_vars

C19_Witness ==
    /\ GraphBuilt
    /\ \E i \in Placeholders : ChildObjects(i) = <<"ColC", "Mesh2", "Light1">>
    /\ \A i \in NodeIds \ {0} : graph.nodes[i].blender_object # "ColB"

\* ---------------------------------------------------------------------------
\* Extension attributes: _xml_object_properties, lines 243-266, and the
\* writers it calls, lines 623-640.  A Python value is its type with its
\* number (a float in units of 10^-8, a bool as 0 or 1) or its text.

MaxProps == 2

\* 1.0 in the unit of float values
FloatOne == 10 * One

PyFloat(raw) == [type |-> "float", num |-> raw, text |-> <<>>]
PyBool(b) == [type |-> "bool", num |-> IF b THEN 1 ELSE 0, text |-> <<>>]
PyInt(n) == [type |-> "int", num |-> n, text |-> <<>>]
PyStr(t) == [type |-> "str", num |-> 0, text |-> t]

\* the number a value compares as: bool and int are exact integers, and a
\* float equals an int of the same magnitude
numeric(val) == IF val.type = "float" THEN val.num ELSE val.num * FloatOne

\* val != other of line 253: numbers compare by magnitude across float, bool
\* and int; a str equals only the same str
differs(val, other) ==
    IF val.type = "str" \/ other.type = "str"
    THEN ~(val.type = other.type /\ val.text = other.text)
    ELSE numeric(val) # numeric(other)

\* str.lower on the characters str(bool) holds
lower(text) ==
    [i \in 1..Len(text) |->
        IF text[i] = "T" THEN "t" ELSE IF text[i] = "F" THEN "f" ELSE text[i]]

\* f"{value!s}" of a bool
str_of_bool(val) ==
    IF val.num = 1 THEN <<"T", "r", "u", "e">> ELSE <<"F", "a", "l", "s", "e">>

\* lines 623-640
xml_write_int(val) == Decimal(val.num)
xml_write_float(val) == format_7f(val.num)
xml_write_bool(val) == lower(str_of_bool(val))
xml_write_string(val) == val.text

\* the isinstance chain with int asked before bool: a bool is an int
write_property_int_first(val) ==
    IF val.type = "float" THEN xml_write_float(val)
    ELSE IF val.type \in {"int", "bool"} THEN xml_write_int(val)
    ELSE xml_write_string(val)

\* lines 255-266: the isinstance chain, float, then bool, then int, then str
write_property(val) ==
    IF val.type = "float" THEN xml_write_float(val)
    ELSE IF val.type = "bool" THEN xml_write_bool(val)
    ELSE IF val.type \in {"int", "bool"} THEN xml_write_int(val)
    ELSE xml_write_string(val)

\* i3d_properties.defaults: the documented default of every declared name
defaults ==
    [visibility |-> PyBool(TRUE),
     castsShadows |-> PyBool(FALSE),
     clipDistance |-> PyFloat(FloatOne),
     objectMask |-> PyInt(1),
     lockedGroup |-> PyStr(<<>>)]

\* lines 247-266 for one declared property: element.set when the test of
\* line 253 passes
xml_object_property(element, prop) ==
    IF prop.name_i3d # "disabled"
       /\ differs(prop.value_i3d, defaults[prop.name_i3d])
    THEN (prop.name_i3d :> write_property(prop.value_i3d)) @@ element
    ELSE element

RECURSIVE xml_object_properties(_, _, _)
\* lines 243-266: the declared properties in the order of the annotations
xml_object_properties(propertygroup, element, i) ==
    IF i > Len(propertygroup) THEN element
    ELSE xml_object_properties(propertygroup,
                               xml_object_property(element, propertygroup[i]),
                               i + 1)

PropNames == DOMAIN defaults \cup {"disabled"}

PropValues ==
    {PyBool(TRUE), PyBool(FALSE), PyInt(0), PyInt(1), PyInt(2),
     PyFloat(0), PyFloat(FloatOne), PyFloat(FloatOne \div 4),
     PyStr(<<>>), PyStr(<<"a">>)}

\* property groups of up to MaxProps declared properties with distinct names
PropertyGroups ==
    {g \in UNION {[1..n -> [name_i3d : PropNames, value_i3d : PropValues]] :
                     n \in 0..MaxProps} :
        \A i, j \in 1..Len(g) : g[i].name_i3d = g[j].name_i3d => i = j}

InitProps ==
    /\ pc = "properties"
    /\ scene \in {[propertygroup |-> g] : g \in PropertyGroups}
    /\ graph = <<>>
    /\ work = <<>>
    /\ ex = NewExporter
    /\ fs = {}
    /\ call = <<>>

\* _xml_object_properties on the element of one node
ObjectProperties ==
    /\ pc = "properties"
    /\ call' = Append(call, [element |->
                   xml_object_properties(scene.propertygroup, <<>>, 1)])
    /\ pc' = "done"
    /\ UNCHANGED <<scene, graph, work, ex, fs>>

NextProps == ObjectProperties

SpecProps == InitProps /\ [][NextProps]_vars

TextTrue == <<"t", "r", "u", "e">>
TextFalse == <<"f", "a", "l", "s", "e">>

C21_MaterialFields ==
    \A k \in 1..Len(ex.Materials) :
        /\ ex.Materials[k].materialId >= 1
        /\ Len(ex.Materials[k].name) >= 1
        /\ ex.Materials[k].diffuseColor
        /\ ex.Materials[k].specularColor

\* the tree is complete: every node was parsed without an error
DocumentFinished == pc \in {"write", "done"}

TextureTags == {"Texture", "Normalmap", "Glossmap"}

ShapesWithId(id) == {k \in 1..Len(ex.Shapes) : ex.Shapes[k].shapeId = id}
MaterialsWithId(id) == {k \in 1..Len(ex.Materials) : ex.Materials[k].materialId = id}
FilesWithId(id) == {k \in 1..Len(ex.Files) : ex.Files[k].fileId = id}

\* C22: in the finished document every Shape element's shapeId is the
\* shapeId of exactly one Shapes entry, every id of its materialIds is the
\* materialId of exactly one Materials entry, every fileId of a texture
\* reference is the fileId of exactly one Files entry, and each of Shapes,
\* Materials and Files holds one entry less than its id counter.
C22_ReferentialIntegrity ==
    DocumentFinished =>
        /\ \A e \in ShapeElements :
              /\ Cardinality(ShapesWithId(ex.Scene[e].shapeId)) = 1
              /\ \A id \in Range(ex.Scene[e].materialIds) :
                    Cardinality(MaterialsWithId(id)) = 1
        /\ \A k \in 1..Len(ex.Materials) :
              \A tag \in TextureTags :
                 ex.Materials[k][tag] # 0
                    => Cardinality(FilesWithId(ex.Materials[k][tag])) = 1
        /\ Len(ex.Shapes) = ex.ids.shape - 1
        /\ Len(ex.Materials) = ex.ids.material - 1
        /\ Len(ex.Files) = ex.ids.file - 1

C22_Witness ==
    /\ DocumentFinished
    /\ Cardinality(ShapeElements) >= 2
    /\ \E e \in ShapeElements : Len(ex.Scene[e].materialIds) >= 2
    /\ \E k \in 1..Len(ex.Materials) :
          /\ ex.Materials[k].Texture # 0
          /\ ex.Materials[k].Normalmap = ex.Materials[k].Texture
          /\ ex.Materials[k].Glossmap \notin {0, ex.Materials[k].Texture}
    /\ Len(ex.Files) >= 2
    /\ Len(ex.Shapes) >= 2

\* the emitted triangles of the k-th subset of a shape, as positions in the
\* shape's triangle list
SubsetTriangles(shape, k) ==
    {t \in 1..Len(shape.Triangles) :
        /\ 3 * (t - 1) >= shape.Subsets[k].firstIndex
        /\ 3 * (t - 1) < shape.Subsets[k].firstIndex + shape.Subsets[k].numIndices}

RECURSIVE SumOver(_, _, _)
\* the sum of one attribute over the subsets from the k-th on
SumOver(subsets, field, k) ==
    IF k > Len(subsets) THEN 0
    ELSE subsets[k][field] + SumOver(subsets, field, k + 1)

\* C23: in every compiled mesh each vertex index of each triangle of subset k
\* lies in [firstVertex(k), firstVertex(k) + numVertices(k)), every triangle
\* belongs to a subset, the numVertices of the subsets sum to the Vertices
\* count and their numIndices to 3 times the Triangles count.
C23_SubsetVertexRange ==
    MeshCompiled =>
        \A shape \in {ex.Shapes[1]} :
            /\ \A k \in 1..Len(shape.Subsets) :
                  \A t \in SubsetTriangles(shape, k) : \A i \in 1..3 :
                     /\ shape.Triangles[t].vi[i] >= shape.Subsets[k].firstVertex
                     /\ shape.Triangles[t].vi[i]
                           < shape.Subsets[k].firstVertex + shape.Subsets[k].numVertices
            /\ UNION {SubsetTriangles(shape, k) : k \in 1..Len(shape.Subsets)}
                  = 1..Len(shape.Triangles)
            /\ SumOver(shape.Subsets, "numVertices", 1) = shape.vertices_count
            /\ shape.vertices_count = Len(shape.Vertices)
            /\ SumOver(shape.Subsets, "numIndices", 1) = 3 * shape.triangles_count
            /\ shape.triangles_count = Len(shape.Triangles)

\* two subsets whose triangles have the same corners: the second subset
\* refers only to entries of its own
C23_Witness ==
    /\ MeshCompiled
    /\ call[1].error = NoError
    /\ Len(ex.Shapes[1].Subsets) = 2
    /\ ex.Shapes[1].Subsets[2].firstVertex > 0
    /\ \E a \in SubsetTriangles(ex.Shapes[1], 1), b \in SubsetTriangles(ex.Shapes[1], 2) :
          scene.mesh.loop_triangles[ex.Shapes[1].Triangles[a].src].loops
             = scene.mesh.loop_triangles[ex.Shapes[1].Triangles[b].src].loops


=========================================================================
